---- MODULE Spec2Model ----
(***************************************************************************)
(* The XModem protocol engines of zad2/src/x.cpp (class XModem) and of the *)
(* free-function copy of the same engines: XModem::sendFile and            *)
(* XModem::receiveFile as two state machines that exchange bytes over a    *)
(* serial line, with the checksum and CRC16 helpers they use.  Every       *)
(* channel read (readByteWithTimeout / readWithTimeout) is one step; the   *)
(* writes a handler makes before its next read belong to the same step.    *)
(***************************************************************************)
EXTENDS Integers, Sequences, FiniteSets, TLC

\* ------------------------------------------------------------ constants
SOH == 1
EOT == 4
ACK == 6
NAK == 21
CAN == 24
C == 67
SUB == 26
BLOCK_SIZE == 128
MAX_RETRIES == 10
TIMEOUT_MILLISECONDS == 10000
START_ATTEMPTS == 6
START_LIMIT_SECONDS == 60

\* ------------------------------------------------------------ bounds
\* blocks the arbitrary peer lets the receiver accept before it stops
\* offering the expected block number
MaxBlocks == 2
\* blocks the in-order feeder delivers (more than 256, so expectedBlock wraps)
WrapBlocks == 257
\* saturation of the history counters of ACKs written
CountCap == 5
MaxTimeouts == 1

Byte == 0..255

Min(a, b) == IF a < b THEN a ELSE b

\* ------------------------------------------------------------ checksums
\* the C++ operator ^ on non-negative integers, bit by bit from the lowest
BitXorF[a \in Nat, b \in Nat] ==
    IF a = 0 THEN b
    ELSE IF b = 0 THEN a
    ELSE (((a % 2) + (b % 2)) % 2) + 2 * BitXorF[a \div 2, b \div 2]

BitXor(a, b) == BitXorF[a, b]

\* crc16tab[i] of the source is crc16tab[i + 1] here
crc16tab == <<
    0, 4129, 8258, 12387, 16516, 20645, 24774, 28903,
    33032, 37161, 41290, 45419, 49548, 53677, 57806, 61935,
    4657, 528, 12915, 8786, 21173, 17044, 29431, 25302,
    37689, 33560, 45947, 41818, 54205, 50076, 62463, 58334,
    9314, 13379, 1056, 5121, 25830, 29895, 17572, 21637,
    42346, 46411, 34088, 38153, 58862, 62927, 50604, 54669,
    13907, 9842, 5649, 1584, 30423, 26358, 22165, 18100,
    46939, 42874, 38681, 34616, 63455, 59390, 55197, 51132,
    18628, 22757, 26758, 30887, 2112, 6241, 10242, 14371,
    51660, 55789, 59790, 63919, 35144, 39273, 43274, 47403,
    23285, 19156, 31415, 27286, 6769, 2640, 14899, 10770,
    56317, 52188, 64447, 60318, 39801, 35672, 47931, 43802,
    27814, 31879, 19684, 23749, 11298, 15363, 3168, 7233,
    60846, 64911, 52716, 56781, 44330, 48395, 36200, 40265,
    32407, 28342, 24277, 20212, 15891, 11826, 7761, 3696,
    65439, 61374, 57309, 53244, 48923, 44858, 40793, 36728,
    37256, 33193, 45514, 41451, 53516, 49453, 61774, 57711,
    4224, 161, 12482, 8419, 20484, 16421, 28742, 24679,
    33721, 37784, 41979, 46042, 49981, 54044, 58239, 62302,
    689, 4752, 8947, 13010, 16949, 21012, 25207, 29270,
    46570, 42443, 38312, 34185, 62830, 58703, 54572, 50445,
    13538, 9411, 5280, 1153, 29798, 25671, 21540, 17413,
    42971, 47098, 34713, 38840, 59231, 63358, 50973, 55100,
    9939, 14066, 1681, 5808, 26199, 30326, 17941, 22068,
    55628, 51565, 63758, 59695, 39368, 35305, 47498, 43435,
    22596, 18533, 30726, 26663, 6336, 2273, 14466, 10403,
    52093, 56156, 60223, 64286, 35833, 39896, 43963, 48026,
    19061, 23124, 27191, 31254, 2801, 6864, 10931, 14994,
    64814, 60687, 56684, 52557, 48554, 44427, 40424, 36297,
    31782, 27655, 23652, 19525, 15522, 11395, 7392, 3265,
    61215, 65342, 53085, 57212, 44955, 49082, 36825, 40952,
    28183, 32310, 20053, 24180, 11923, 16050, 3793, 7920
>>

\* variant of calculateChecksum that adds modulo 255
calculateChecksumMod255(data) ==
    LET loop[lo \in 1..Len(data), hi \in 1..Len(data), sum \in Byte] ==
            IF lo = hi THEN (sum + data[lo]) % 255
            ELSE loop[((lo + hi) \div 2) + 1, hi, loop[lo, (lo + hi) \div 2, sum]]
    IN  IF Len(data) = 0 THEN 0 ELSE loop[1, Len(data), 0]

\* calculateChecksum: uint8_t sum = 0; for each byte in order, sum += byte.
\* (The loop over data[lo..hi] is written as a function that halves the range,
\* so that each partial sum is a value before the next bytes are added; the
\* bytes are still taken left to right.)
calculateChecksum(data) ==
    LET loop[lo \in 1..Len(data), hi \in 1..Len(data), sum \in Byte] ==
            IF lo = hi THEN (sum + data[lo]) % 256
            ELSE loop[((lo + hi) \div 2) + 1, hi, loop[lo, (lo + hi) \div 2, sum]]
    IN  IF Len(data) = 0 THEN 0 ELSE loop[1, Len(data), 0]

\* the table of the free-function copy of the engines, index shifted likewise
crc16tabCopy == <<
    0, 4129, 8258, 12387, 16516, 20645, 24774, 28903,
    33032, 37161, 41290, 45419, 49548, 53677, 57806, 61935,
    4657, 528, 12915, 8786, 21173, 17044, 29431, 25302,
    37689, 33560, 45947, 41818, 54205, 50076, 62463, 58334,
    9314, 13379, 1056, 5121, 25830, 29895, 17572, 21637,
    42346, 46411, 34088, 38153, 58862, 62927, 50604, 54669,
    13907, 9842, 5649, 1584, 30423, 26358, 22165, 18100,
    46939, 42874, 38681, 34616, 63455, 59390, 55197, 51132,
    18628, 22757, 26758, 30887, 2112, 6241, 10242, 14371,
    51660, 55789, 59790, 63919, 35144, 39273, 43274, 47403,
    23285, 19156, 31415, 27286, 6769, 2640, 14899, 10770,
    56317, 52188, 64447, 60318, 39801, 35672, 47931, 43802,
    27814, 31879, 19684, 23749, 11298, 15363, 3168, 7233,
    60846, 64911, 52716, 56781, 44330, 48395, 36200, 40265,
    32407, 28342, 24277, 20212, 15891, 11826, 7761, 3696,
    65439, 61374, 57309, 53244, 48923, 44858, 40793, 36728,
    37256, 33193, 45514, 41451, 53516, 49453, 61774, 57711,
    4224, 161, 12482, 8419, 20484, 16421, 28742, 24679,
    33721, 37784, 41979, 46042, 49981, 54044, 58239, 62302,
    689, 4752, 8947, 13010, 16949, 21012, 25207, 29270,
    46570, 42443, 38312, 34185, 62830, 58703, 54572, 50445,
    13538, 9411, 5280, 1153, 29798, 25671, 21540, 17413,
    42971, 47098, 34713, 38840, 59231, 63358, 50973, 55100,
    9939, 14066, 1681, 5808, 26199, 30326, 17941, 22068,
    55628, 51565, 63758, 59695, 39368, 35305, 47498, 43435,
    22596, 18533, 30726, 26663, 6336, 2273, 14466, 10403,
    52093, 56156, 60223, 64286, 35833, 39896, 43963, 48026,
    19061, 23124, 27191, 31254, 2801, 6864, 10931, 14994,
    64814, 60687, 56684, 52557, 48554, 44427, 40424, 36297,
    31782, 27655, 23652, 19525, 15522, 11395, 7392, 3265,
    61215, 65342, 53085, 57212, 44955, 49082, 36825, 40952,
    28183, 32310, 20053, 24180, 11923, 16050, 3793, 7920
>>

\* variant of CrcStep that takes the table index from the low byte of crc
CrcStepLowIndex(crc, byte) ==
    BitXor(crc * 256, crc16tab[(BitXor(crc % 256, byte) % 256) + 1]) % 65536

\* one iteration of calculateCRC16:
\* crc = (crc << 8) ^ crc16tab[((crc >> 8) ^ byte) & 0xFF], kept to 16 bits
CrcStep(crc, byte) ==
    BitXor(crc * 256, crc16tab[(BitXor(crc \div 256, byte) % 256) + 1]) % 65536

\* calculateCRC16: uint16_t crc = 0; for each byte in order, one CrcStep
calculateCRC16(data) ==
    LET loop[lo \in 1..Len(data), hi \in 1..Len(data), crc \in 0..65535] ==
            IF lo = hi THEN CrcStep(crc, data[lo])
            ELSE loop[((lo + hi) \div 2) + 1, hi, loop[lo, (lo + hi) \div 2, crc]]
    IN  IF Len(data) = 0 THEN 0 ELSE loop[1, Len(data), 0]

\* ------------------------------------------------------------ framing
\* variant of BuildPacket with the two's complement of the block number
BuildPacketNegated(useCRC, blockNumber, buffer) ==
    IF useCRC
    THEN LET crc == calculateCRC16(buffer)
         IN  <<SOH, blockNumber, (256 - blockNumber) % 256>> \o buffer
                 \o <<(crc \div 256) % 256, crc % 256>>
    ELSE <<SOH, blockNumber, (256 - blockNumber) % 256>> \o buffer
             \o <<calculateChecksum(buffer)>>

\* variant of BuildPacket that puts the low byte of the CRC first
BuildPacketLowFirst(useCRC, blockNumber, buffer) ==
    IF useCRC
    THEN LET crc == calculateCRC16(buffer)
         IN  <<SOH, blockNumber, 255 - blockNumber>> \o buffer
                 \o <<crc % 256, (crc \div 256) % 256>>
    ELSE <<SOH, blockNumber, 255 - blockNumber>> \o buffer
             \o <<calculateChecksum(buffer)>>

\* the packet sendFile builds for one block (packet[0..BLOCK_SIZE+3 or +4])
BuildPacket(useCRC, blockNumber, buffer) ==
    IF useCRC
    THEN LET crc == calculateCRC16(buffer)
         IN  <<SOH, blockNumber, 255 - blockNumber>> \o buffer
                 \o <<(crc \div 256) % 256, crc % 256>>
    ELSE <<SOH, blockNumber, 255 - blockNumber>> \o buffer
             \o <<calculateChecksum(buffer)>>

\* an input file is held as its bytes in records of BLOCK_SIZE, the last record
\* shorter when the size is no multiple of BLOCK_SIZE; FileSize is its size in
\* bytes and FileByte its p-th byte (p from 1)
FileSize(f) ==
    IF f = <<>> THEN 0 ELSE (Len(f) - 1) * BLOCK_SIZE + Len(f[Len(f)])

FileByte(f, p) == f[((p - 1) \div BLOCK_SIZE) + 1][((p - 1) % BLOCK_SIZE) + 1]

\* variant of ReadChunk that fills a short chunk with zeros
ReadChunkZeroFill(f, pos, old) ==
    LET n == Min(BLOCK_SIZE, FileSize(f) - pos)
    IN  IF n = 0 THEN old
        ELSE [i \in 1..BLOCK_SIZE |-> IF i <= n THEN FileByte(f, pos + i) ELSE 0]

\* file.read of up to BLOCK_SIZE bytes at offset pos, then std::fill with 0x1A
ReadChunk(f, pos, old) ==
    LET n == Min(BLOCK_SIZE, FileSize(f) - pos)
    IN  IF n = 0 THEN old
        ELSE [i \in 1..BLOCK_SIZE |-> IF i <= n THEN FileByte(f, pos + i) ELSE SUB]

\* the byte the receiver announces its mode with, and re-requests a block with
ModeByte(useCRC) == IF useCRC THEN C ELSE NAK

\* ------------------------------------------------------------ inputs
\* number of 128-byte blocks of a file of len bytes
NumBlocks(len) == (len + BLOCK_SIZE - 1) \div BLOCK_SIZE

\* input files of the sender: length len, byte p is (7 p + 3) mod 256
FileOf(len) ==
    [k \in 1..NumBlocks(len) |->
        [i \in 1..Min(BLOCK_SIZE, len - (k - 1) * BLOCK_SIZE) |->
            (7 * ((k - 1) * BLOCK_SIZE + i) + 3) % 256]]
FileLens == {0, 100, 128, 300}

\* a file long enough for the 8-bit block number to wrap, its last block short
LongLen == (WrapBlocks - 1) * BLOCK_SIZE + 44

\* input files of the sessions with a corrupted frame
FaultLens == {100, 300}

\* the payload the peer and the feeder put in a frame numbered n
PayloadOf(n) == [i \in 1..BLOCK_SIZE |-> (n + i) % 256]

\* blocks the check values are computed for: all 0x00, all 0xFF, all 0x1A,
\* 0x01 followed by zeros, and two blocks of mixed bytes
TestBlocks ==
    {[i \in 1..BLOCK_SIZE |-> 0], [i \in 1..BLOCK_SIZE |-> 255],
     [i \in 1..BLOCK_SIZE |-> SUB], [i \in 1..BLOCK_SIZE |-> IF i = 1 THEN 1 ELSE 0],
     PayloadOf(200), [i \in 1..BLOCK_SIZE |-> (7 * i + 3) % 256]}

\* the bytes of file f in blocks of BLOCK_SIZE, the last one filled up with
\* 0x1A: what a complete transfer of f leaves in the receiver's output
PaddedBlocks(f) ==
    [k \in 1..NumBlocks(FileSize(f)) |->
        [i \in 1..BLOCK_SIZE |->
            IF (k - 1) * BLOCK_SIZE + i <= FileSize(f)
            THEN FileByte(f, (k - 1) * BLOCK_SIZE + i) ELSE SUB]]

\* result of a step that made no read
NoRead == <<-1>>

VARIABLES
    file,   \* the sender's input file (bytes, in records of BLOCK_SIZE)
    snd,    \* sendFile: locals, position, bytes written / read by the last step
    rcv,    \* receiveFile: locals, output file, bytes written / read by the last step
    s2r,    \* bytes in flight from sender to receiver
    r2s,    \* bytes in flight from receiver to sender
    env,    \* what the reads of an engine come from
    hist    \* history: counts of what was written

vars == <<file, snd, rcv, s2r, r2s, env, hist>>

\* ------------------------------------------------------------ environment
\* the engine is not inside sendFile / receiveFile: it was not started or has
\* returned (main then destroys the XModem object, which closes the port)
SenderReturned == snd.pc \in {"idle", "done", "failed"}
ReceiverReturned == rcv.pc \in {"idle", "done", "failed"}

\* bytes the read at the receiver's position asks for
Need == IF rcv.pc = "data" THEN BLOCK_SIZE ELSE 1

\* frames the in-order feeder may deliver now
FeedChoices ==
    IF env = "feed" /\ s2r = <<>> /\ rcv.pc \in {"start_read", "next_hdr"}
    THEN (IF Len(rcv.output) < WrapBlocks THEN {rcv.expectedBlock} ELSE {})
            \cup (IF hist.lastAccepted >= 0 THEN {hist.lastAccepted} ELSE {})
    ELSE {}

\* the sender will write nothing before it reads a byte that is not in flight
SenderWaits ==
    \/ SenderReturned
    \/ snd.pc \in {"handshake", "eot_read", "blk_read"} /\ r2s = <<>>

\* the receiver will write nothing before its read returns empty or short
ReceiverWaits ==
    \/ ReceiverReturned
    \/ /\ rcv.pc \in {"start_read", "blk_num", "blk_cmpl", "data", "crc_hi",
                       "crc_lo", "sum", "next_hdr", "hdr_retry"}
       /\ Len(s2r) < Need

\* bytes an arbitrary peer answers the sender with
SPeerBytes == {ACK, NAK, CAN, C, SOH}

\* Every read returns after TIMEOUT_MILLISECONDS (SetCommTimeouts) with the
\* bytes that arrived.  In every environment a read whose bytes are not in
\* flight times out when nothing is on its way: the peer has returned or waits
\* in a read of its own.  On the channel that loses what was written, a read
\* may also time out while the peer is still about to write (the reply comes
\* late): MaxTimeouts times at most in a session, and before the loss (env
\* "lossy"; "late" after the loss)
MayBeLate == env = "lossy" /\ hist.timeouts < MaxTimeouts

\* what one read of the sender may return: <<b>> for a byte, <<>> for a
\* timeout or a failed ReadFile (the code treats both as "<= 0")
SReads ==
    IF env = "peer" THEN {<<b>> : b \in SPeerBytes} \cup {<<>>}
    ELSE IF r2s # <<>> THEN {<<Head(r2s)>>}
    ELSE IF ReceiverWaits \/ MayBeLate THEN {<<>>}
    ELSE {}

\* the channel after a sender step that read r and wrote out; what is written
\* to a receiver that has returned is not kept
SChan(r, out) ==
    IF env = "peer" THEN UNCHANGED <<s2r, r2s>>
    ELSE /\ r2s' = SubSeq(r2s, Len(r) + 1, Len(r2s))
         /\ s2r' = IF ReceiverReturned THEN s2r ELSE s2r \o out

\* a byte that differs from b
Wrong(b) == (b + 1) % 256

\* what one read of the receiver may return at its current position: for the
\* arbitrary peer a bounded choice of the bytes that matter there, else the
\* next bytes in flight; when there are too few the read returns the fewer
\* bytes that arrived, after a timeout, when the sender and the feeder wait or
\* when the rest may come late
RReads ==
    IF env = "peer"
    THEN CASE rcv.pc \in {"start_read", "next_hdr", "hdr_retry"} ->
                  {<<SOH>>, <<EOT>>, <<CAN>>, <<ACK>>, <<>>}
           [] rcv.pc = "blk_num" ->
                  {<<(rcv.expectedBlock + 255) % 256>>,
                   <<(rcv.expectedBlock + 1) % 256>>, <<>>}
                  \cup (IF rcv.expectedBlock <= MaxBlocks
                        THEN {<<rcv.expectedBlock>>} ELSE {})
           [] rcv.pc = "blk_cmpl" ->
                  {<<255 - rcv.blockNumber>>, <<Wrong(255 - rcv.blockNumber)>>, <<>>}
           [] rcv.pc = "data" ->
                  {PayloadOf(rcv.blockNumber),
                   SubSeq(PayloadOf(rcv.blockNumber), 1, 5), <<>>}
           [] rcv.pc = "sum" ->
                  {<<calculateChecksum(rcv.dataBlock)>>,
                   <<Wrong(calculateChecksum(rcv.dataBlock))>>, <<>>}
           [] rcv.pc = "crc_hi" ->
                  {<<calculateCRC16(rcv.dataBlock) \div 256>>,
                   <<Wrong(calculateCRC16(rcv.dataBlock) \div 256)>>, <<>>}
           [] rcv.pc = "crc_lo" ->
                  {<<calculateCRC16(rcv.dataBlock) % 256>>,
                   <<Wrong(calculateCRC16(rcv.dataBlock) % 256)>>, <<>>}
           [] OTHER -> {}
    ELSE IF Len(s2r) >= Need THEN {SubSeq(s2r, 1, Need)}
         ELSE IF (SenderWaits /\ FeedChoices = {}) \/ MayBeLate THEN {s2r}
         ELSE {}

\* the channel after a receiver step that read r and wrote out; what is
\* written to a sender that has returned or was never started (the feeder
\* does not read) is not kept
RChan(r, out) ==
    IF env = "peer" THEN UNCHANGED <<s2r, r2s>>
    ELSE /\ s2r' = SubSeq(s2r, Len(r) + 1, Len(s2r))
         /\ r2s' = IF SenderReturned THEN r2s ELSE r2s \o out

\* the time in milliseconds the steady clock may advance during one attempt of
\* the start phase (WriteFile, ReadFile, console output, scheduling): whatever
\* the read returned, from no time at all (a byte at once, a failed ReadFile)
\* to the whole of START_LIMIT_SECONDS, here in steps of TIMEOUT_MILLISECONDS
AttemptTimes ==
    {k * TIMEOUT_MILLISECONDS : k \in {0, 1, 2, 3, 6}}

\* saturating increment of a history counter
Bump(n) == Min(n + 1, CountCap)

\* ------------------------------------------------------------ initial states
SndIdle ==
    [pc |-> "idle", canOpen |-> TRUE, blockNumber |-> 1,
     buffer |-> [i \in 1..BLOCK_SIZE |-> 0], response |-> 0,
     retries |-> 0, useCRC |-> FALSE, pos |-> 0, out |-> <<>>, rd |-> NoRead]

\* sendFile entered: the object was constructed with useCRC = crc
SndInit(crc, ok) == [SndIdle EXCEPT !.pc = "open", !.useCRC = crc, !.canOpen = ok]

\* (openCheck: the class version returns false when the output file cannot be
\* opened; the free-function copy of receiveFile has no such test and goes on
\* with a stream on which every write fails)
RcvIdle ==
    [pc |-> "idle", canOpen |-> TRUE, openCheck |-> TRUE, expectedBlock |-> 1, headerByte |-> 0,
     blockNumber |-> 0, blockNumberComplement |-> 0, dataBlock |-> <<>>,
     crcHigh |-> 0, retries |-> 0, elapsed |-> 0, useCRC |-> FALSE,
     output |-> <<>>, out |-> <<>>, rd |-> NoRead]

RcvInit(crc, ok) == [RcvIdle EXCEPT !.pc = "open", !.useCRC = crc, !.canOpen = ok]

\* history: frames written for the block being sent and for the block before
\* it, EOTs written, ACKs the receiver wrote for data blocks and for EOT, the
\* number of the block accepted last, the mode the sender was constructed with,
\* the mode bytes the receiver wrote in its start phase, the reads that timed
\* out while the peer was about to write, whether the receiver's last step rejected a frame
\* in the branch headerByte == SOH
HistInit == [frames |-> 0, prev |-> 0, eots |-> 0, ackData |-> 0, ackEot |-> 0,
             lastAccepted |-> -1, cfgCRC |-> FALSE, announces |-> 0,
             timeouts |-> 0, rejected |-> FALSE]

\* the history after a sender step that read r
SHist(h, r) ==
    IF env = "lossy" /\ r = <<>> /\ ~ReceiverWaits
    THEN [h EXCEPT !.timeouts = @ + 1] ELSE h

\* one engine (main runs either role) against an arbitrary peer
Init ==
    /\ env = "peer"
    /\ s2r = <<>>
    /\ r2s = <<>>
    /\ \/ /\ file \in {FileOf(len) : len \in FileLens}
          /\ snd \in {SndInit(crc, ok) : crc \in BOOLEAN, ok \in BOOLEAN}
          /\ rcv = RcvIdle
       \/ /\ file = <<>>
          /\ snd = SndIdle
          /\ rcv \in {RcvInit(crc, ok) : crc \in BOOLEAN, ok \in BOOLEAN}
    /\ hist = [HistInit EXCEPT !.cfgCRC = snd.useCRC]

\* ------------------------------------------------------------ sendFile
\* std::ifstream file(filename); if (!file) return false
SOpen ==
    /\ snd.pc = "open"
    /\ snd' = [snd EXCEPT !.pc = IF snd.canOpen THEN "handshake" ELSE "failed",
                          !.out = <<>>, !.rd = NoRead]
    /\ SChan(<<>>, <<>>)
    /\ UNCHANGED <<file, rcv, env, hist>>

\* variant of HandshakeStep that starts on NAK or 'C' but keeps the mode the
\* object was constructed with
HandshakeStepKeepMode(s, r) ==
    IF r # <<>>
    THEN [s EXCEPT !.response = r[1],
                   !.pc = IF r[1] \in {NAK, C} THEN "read_file" ELSE "handshake",
                   !.out = <<>>, !.rd = r]
    ELSE [s EXCEPT !.retries = @ + 1,
                   !.pc = IF s.retries + 1 < MAX_RETRIES THEN "handshake" ELSE "failed",
                   !.out = <<>>, !.rd = r]

\* variant of HandshakeStep in which every read that does not start the
\* transfer uses up an attempt
HandshakeStepCountsAll(s, r) ==
    IF r # <<>> /\ r[1] \in {NAK, C}
    THEN [s EXCEPT !.response = r[1],
                   !.useCRC = (r[1] = C),
                   !.pc = "read_file", !.out = <<>>, !.rd = r]
    ELSE [s EXCEPT !.response = IF r # <<>> THEN r[1] ELSE @,
                   !.retries = @ + 1,
                   !.pc = IF s.retries + 1 < MAX_RETRIES THEN "handshake" ELSE "failed",
                   !.out = <<>>, !.rd = r]

\* variant of HandshakeStep that starts on 'C' without switching to CRC
HandshakeStepIgnoresC(s, r) ==
    IF r # <<>>
    THEN [s EXCEPT !.response = r[1],
                   !.useCRC = IF r[1] = NAK THEN FALSE ELSE @,
                   !.pc = IF r[1] \in {NAK, C} THEN "read_file" ELSE "handshake",
                   !.out = <<>>, !.rd = r]
    ELSE [s EXCEPT !.retries = @ + 1,
                   !.pc = IF s.retries + 1 < MAX_RETRIES THEN "handshake" ELSE "failed",
                   !.out = <<>>, !.rd = r]

\* one iteration of while (waitingForInitiation && retries < MAX_RETRIES)
HandshakeStep(s, r) ==
    IF r # <<>>
    THEN [s EXCEPT !.response = r[1],
                   !.useCRC = IF r[1] = NAK THEN FALSE
                              ELSE IF r[1] = C THEN TRUE ELSE @,
                   !.pc = IF r[1] \in {NAK, C} THEN "read_file" ELSE "handshake",
                   !.out = <<>>, !.rd = r]
    ELSE [s EXCEPT !.retries = @ + 1,
                   !.pc = IF s.retries + 1 < MAX_RETRIES THEN "handshake" ELSE "failed",
                   !.out = <<>>, !.rd = r]

SHandshake ==
    /\ snd.pc = "handshake"
    /\ \E r \in SReads :
          /\ snd' = HandshakeStep(snd, r)
          /\ SChan(r, <<>>)
          /\ hist' = SHist(hist, r)
    /\ UNCHANGED <<file, rcv, env>>

\* file.read(buffer, BLOCK_SIZE): no byte left starts the EOT loop, else the
\* chunk is padded and the block loop starts, each with retries = 0
NextChunk(s, f) ==
    IF Min(BLOCK_SIZE, FileSize(f) - s.pos) = 0
    THEN [s EXCEPT !.retries = 0, !.pc = "eot_write", !.out = <<>>, !.rd = NoRead]
    ELSE [s EXCEPT !.buffer = ReadChunk(f, s.pos, s.buffer),
                   !.pos = @ + Min(BLOCK_SIZE, FileSize(f) - s.pos),
                   !.retries = 0, !.pc = "blk_write", !.out = <<>>, !.rd = NoRead]

SReadFile ==
    /\ snd.pc = "read_file"
    /\ snd' = NextChunk(snd, file)
    /\ hist' = [hist EXCEPT !.frames = 0, !.prev = hist.frames]
    /\ SChan(<<>>, <<>>)
    /\ UNCHANGED <<file, rcv, env>>

\* writeByte(EOT)
SWriteEOT ==
    /\ snd.pc = "eot_write"
    /\ snd' = [snd EXCEPT !.pc = "eot_read", !.out = <<EOT>>, !.rd = NoRead]
    /\ hist' = [hist EXCEPT !.eots = Bump(@)]
    /\ SChan(<<>>, <<EOT>>)
    /\ UNCHANGED <<file, rcv, env>>

\* variant of EotStep in which a timeout does not use up an attempt
EotStepFreeTimeout(s, r) ==
    [s EXCEPT !.response = IF r # <<>> THEN r[1] ELSE @,
              !.retries = IF r # <<>> THEN @ + 1 ELSE @,
              !.pc = IF r # <<>> /\ r[1] = ACK THEN "done"
                     ELSE IF r = <<>> \/ s.retries + 1 < MAX_RETRIES THEN "eot_write"
                     ELSE "failed",
              !.out = <<>>, !.rd = r]

\* the read after EOT, retries++ and the loop condition
EotStep(s, r) ==
    [s EXCEPT !.response = IF r # <<>> THEN r[1] ELSE @,
              !.retries = @ + 1,
              !.pc = IF r # <<>> /\ r[1] = ACK THEN "done"
                     ELSE IF s.retries + 1 < MAX_RETRIES THEN "eot_write"
                     ELSE "failed",
              !.out = <<>>, !.rd = r]

SReadEOT ==
    /\ snd.pc = "eot_read"
    /\ \E r \in SReads :
          /\ snd' = EotStep(snd, r)
          /\ SChan(r, <<>>)
          /\ hist' = SHist(hist, r)
    /\ UNCHANGED <<file, rcv, env>>

\* packet build and writeAll(packet)
SWriteBlock ==
    /\ snd.pc = "blk_write"
    /\ snd' = [snd EXCEPT !.pc = "blk_read",
                          !.out = BuildPacket(snd.useCRC, snd.blockNumber, snd.buffer),
                          !.rd = NoRead]
    /\ hist' = [hist EXCEPT !.frames = @ + 1]
    /\ SChan(<<>>, snd'.out)
    /\ UNCHANGED <<file, rcv, env>>

\* variant of ResponseStep in which a NAK does not use up an attempt
ResponseStepFreeNak(s, r) ==
    IF r # <<>> /\ r[1] = ACK
    THEN [s EXCEPT !.response = r[1], !.blockNumber = (@ + 1) % 256,
                   !.retries = @ + 1, !.pc = "read_file", !.out = <<>>, !.rd = r]
    ELSE IF r # <<>> /\ r[1] = CAN
    THEN [s EXCEPT !.response = r[1], !.pc = "failed", !.out = <<>>, !.rd = r]
    ELSE IF r # <<>> /\ r[1] = NAK
    THEN [s EXCEPT !.response = r[1], !.pc = "blk_write", !.out = <<>>, !.rd = r]
    ELSE [s EXCEPT !.response = IF r # <<>> THEN r[1] ELSE @,
                   !.retries = @ + 1,
                   !.pc = IF s.retries + 1 < MAX_RETRIES THEN "blk_write" ELSE "failed",
                   !.out = <<>>, !.rd = r]

\* variant of ResponseStep in which a NAK moves on to the next block number
ResponseStepNakAdvances(s, r) ==
    IF r # <<>> /\ r[1] = ACK
    THEN [s EXCEPT !.response = r[1], !.blockNumber = (@ + 1) % 256,
                   !.retries = @ + 1, !.pc = "read_file", !.out = <<>>, !.rd = r]
    ELSE IF r # <<>> /\ r[1] = CAN
    THEN [s EXCEPT !.response = r[1], !.pc = "failed", !.out = <<>>, !.rd = r]
    ELSE [s EXCEPT !.response = IF r # <<>> THEN r[1] ELSE @,
                   !.blockNumber = IF r # <<>> /\ r[1] = NAK
                                   THEN (@ + 1) % 256 ELSE @,
                   !.retries = @ + 1,
                   !.pc = IF s.retries + 1 < MAX_RETRIES THEN "blk_write" ELSE "failed",
                   !.out = <<>>, !.rd = r]

\* variant of ResponseStep whose block number is kept in 4 bits
ResponseStepNarrow(s, r) ==
    IF r # <<>> /\ r[1] = ACK
    THEN [s EXCEPT !.response = r[1],
                   !.blockNumber = (@ + 1) % 16,
                   !.retries = @ + 1, !.pc = "read_file", !.out = <<>>, !.rd = r]
    ELSE IF r # <<>> /\ r[1] = CAN
    THEN [s EXCEPT !.response = r[1], !.pc = "failed", !.out = <<>>, !.rd = r]
    ELSE [s EXCEPT !.response = IF r # <<>> THEN r[1] ELSE @,
                   !.retries = @ + 1,
                   !.pc = IF s.retries + 1 < MAX_RETRIES THEN "blk_write" ELSE "failed",
                   !.out = <<>>, !.rd = r]

\* variant of ResponseStep in which CAN is one more unusable response
ResponseStepCanRetries(s, r) ==
    IF r # <<>> /\ r[1] = ACK
    THEN [s EXCEPT !.response = r[1], !.blockNumber = (@ + 1) % 256,
                   !.retries = @ + 1, !.pc = "read_file", !.out = <<>>, !.rd = r]
    ELSE [s EXCEPT !.response = IF r # <<>> THEN r[1] ELSE @,
                   !.retries = @ + 1,
                   !.pc = IF s.retries + 1 < MAX_RETRIES THEN "blk_write" ELSE "failed",
                   !.out = <<>>, !.rd = r]

\* the read after a frame: ACK advances, CAN returns false, anything else and
\* a timeout fall to retries++ and the loop condition
ResponseStep(s, r) ==
    IF r # <<>> /\ r[1] = ACK
    THEN [s EXCEPT !.response = r[1], !.blockNumber = (@ + 1) % 256,
                   !.retries = @ + 1, !.pc = "read_file", !.out = <<>>, !.rd = r]
    ELSE IF r # <<>> /\ r[1] = CAN
    THEN [s EXCEPT !.response = r[1], !.pc = "failed", !.out = <<>>, !.rd = r]
    ELSE [s EXCEPT !.response = IF r # <<>> THEN r[1] ELSE @,
                   !.retries = @ + 1,
                   !.pc = IF s.retries + 1 < MAX_RETRIES THEN "blk_write" ELSE "failed",
                   !.out = <<>>, !.rd = r]

SReadResponse ==
    /\ snd.pc = "blk_read"
    /\ \E r \in SReads :
          /\ snd' = ResponseStep(snd, r)
          /\ SChan(r, <<>>)
          /\ hist' = SHist(hist, r)
    /\ UNCHANGED <<file, rcv, env>>

SenderNext ==
    \/ SOpen
    \/ SHandshake
    \/ SReadFile
    \/ SWriteEOT
    \/ SReadEOT
    \/ SWriteBlock
    \/ SReadResponse

\* ------------------------------------------------------------ receiveFile
\* variant of Cont that answers an unexpected header byte with ACK
ContAck(v, w) ==
    CASE v.headerByte = SOH -> [v EXCEPT !.pc = "blk_num", !.out = w]
      [] v.headerByte = EOT -> [v EXCEPT !.pc = "done", !.out = w \o <<ACK>>]
      [] OTHER -> [v EXCEPT !.pc = "hdr_retry", !.out = w \o <<ACK>>]

\* the head of while (receiving), reached by a continue or by the end of an
\* iteration after the writes w: headerByte SOH reads a block number next, EOT
\* writes ACK and ends the loop, any other value writes NAK and re-reads the
\* header byte
Cont(v, w) ==
    CASE v.headerByte = SOH -> [v EXCEPT !.pc = "blk_num", !.out = w]
      [] v.headerByte = EOT -> [v EXCEPT !.pc = "done", !.out = w \o <<ACK>>]
      [] OTHER -> [v EXCEPT !.pc = "hdr_retry", !.out = w \o <<NAK>>]

\* dataBlock, crcHigh and crcLow go out of scope at the end of an iteration
Clear(v) == [v EXCEPT !.dataBlock = <<>>, !.crcHigh = 0]

\* std::ofstream file(filename); if (!file) return false
ROpen ==
    /\ rcv.pc = "open"
    /\ rcv' = [rcv EXCEPT !.pc = IF rcv.canOpen \/ ~rcv.openCheck
                                 THEN "start_write" ELSE "failed",
                          !.out = <<>>, !.rd = NoRead]
    /\ RChan(<<>>, <<>>)
    /\ UNCHANGED <<file, snd, env, hist>>

\* start phase, first half of an attempt: writeByte(C) or writeByte(NAK)
RAnnounce ==
    /\ rcv.pc = "start_write"
    /\ rcv' = [rcv EXCEPT !.pc = "start_read", !.out = <<ModeByte(rcv.useCRC)>>,
                          !.rd = NoRead]
    /\ RChan(<<>>, rcv'.out)
    /\ hist' = [hist EXCEPT !.announces = @ + 1]
    /\ UNCHANGED <<file, snd, env>>

\* variant of StartStep in which only a timeout uses up an attempt
StartStepFreeByte(v, r, dt) ==
    IF r # <<>> /\ r[1] = SOH
    THEN Cont([v EXCEPT !.headerByte = SOH, !.rd = r], <<>>)
    ELSE IF r # <<>> /\ r[1] = EOT
    THEN [v EXCEPT !.headerByte = EOT, !.pc = "done", !.out = <<ACK>>, !.rd = r]
    ELSE IF r # <<>>
    THEN [v EXCEPT !.headerByte = r[1], !.pc = "start_write", !.out = <<>>, !.rd = r]
    ELSE LET el == v.elapsed + dt
         IN  [v EXCEPT !.retries = @ + 1,
                       !.elapsed = el,
                       !.pc = IF el \div 1000 >= START_LIMIT_SECONDS THEN "failed"
                              ELSE IF v.retries + 1 < START_ATTEMPTS THEN "start_write"
                              ELSE "failed",
                       !.out = <<>>, !.rd = r]

\* variant of StartStep in which EOT is one more unusable first byte
StartStepNoEot(v, r, dt) ==
    IF r # <<>> /\ r[1] = SOH
    THEN Cont([v EXCEPT !.headerByte = SOH, !.rd = r], <<>>)
    ELSE LET el == v.elapsed + dt
         IN  [v EXCEPT !.headerByte = IF r # <<>> THEN r[1] ELSE @,
                       !.retries = @ + 1,
                       !.elapsed = el,
                       !.pc = IF el \div 1000 >= START_LIMIT_SECONDS THEN "failed"
                              ELSE IF v.retries + 1 < START_ATTEMPTS THEN "start_write"
                              ELSE "failed",
                       !.out = <<>>, !.rd = r]

\* start phase, second half of an attempt: the read, retries++, the 60 s
\* check and the loop condition retries < 6; dt is the time in milliseconds
\* the steady clock advanced during the attempt (write, read, scheduling), the
\* clock being read only when the byte is neither SOH nor EOT
StartStep(v, r, dt) ==
    IF r # <<>> /\ r[1] = SOH
    THEN Cont([v EXCEPT !.headerByte = SOH, !.rd = r], <<>>)
    ELSE IF r # <<>> /\ r[1] = EOT
    THEN [v EXCEPT !.headerByte = EOT, !.pc = "done", !.out = <<ACK>>, !.rd = r]
    ELSE LET el == v.elapsed + dt
         IN  [v EXCEPT !.headerByte = IF r # <<>> THEN r[1] ELSE @,
                       !.retries = @ + 1,
                       !.elapsed = el,
                       !.pc = IF el \div 1000 >= START_LIMIT_SECONDS THEN "failed"
                              ELSE IF v.retries + 1 < START_ATTEMPTS THEN "start_write"
                              ELSE "failed",
                       !.out = <<>>, !.rd = r]

\* variant of StartStepCopy whose loop makes 5 attempts
StartStepCopyFive(v, r) ==
    IF r # <<>> /\ r[1] = SOH
    THEN Cont([v EXCEPT !.headerByte = SOH, !.rd = r], <<>>)
    ELSE IF r # <<>> /\ r[1] = EOT
    THEN [v EXCEPT !.headerByte = EOT, !.pc = "done", !.out = <<ACK>>, !.rd = r]
    ELSE [v EXCEPT !.headerByte = IF r # <<>> THEN r[1] ELSE @,
                   !.retries = @ + 1,
                   !.pc = IF v.retries + 1 < START_ATTEMPTS - 1 THEN "start_write"
                          ELSE "failed",
                   !.out = <<>>, !.rd = r]

\* the start phase of the free-function copy, second half of an attempt: the
\* read in for (int i = 0; i < 6; ++i) (i is held in retries), break with
\* receiving = true on SOH, ACK and return true on EOT, return false after the
\* loop when nothing started; no clock is read
StartStepCopy(v, r) ==
    IF r # <<>> /\ r[1] = SOH
    THEN Cont([v EXCEPT !.headerByte = SOH, !.rd = r], <<>>)
    ELSE IF r # <<>> /\ r[1] = EOT
    THEN [v EXCEPT !.headerByte = EOT, !.pc = "done", !.out = <<ACK>>, !.rd = r]
    ELSE [v EXCEPT !.headerByte = IF r # <<>> THEN r[1] ELSE @,
                   !.retries = @ + 1,
                   !.pc = IF v.retries + 1 < START_ATTEMPTS THEN "start_write"
                          ELSE "failed",
                   !.out = <<>>, !.rd = r]

\* the step from v to w made a read in the branch headerByte == SOH and ended
\* in one of its continue statements after a mode byte or NAK, not in an ACK
Rejects(v, w) ==
    /\ v.pc \in {"blk_num", "blk_cmpl", "data", "crc_hi", "crc_lo", "sum"}
    /\ w.out # <<>>
    /\ w.out[1] # ACK

\* the history counters after a receiver step from v to w (the block accepted
\* last is the one whose ACK came with expectedBlock++); against the arbitrary
\* peer, whose runs do not end, only the last accepted number is kept
RHist(h, v, w) ==
    IF env = "peer"
    THEN [h EXCEPT !.lastAccepted = IF w.expectedBlock # v.expectedBlock
                                    THEN v.blockNumber ELSE @,
                   !.rejected = Rejects(v, w)]
    ELSE
    [h EXCEPT !.rejected = Rejects(v, w),
              !.ackData = IF w.pc = "next_hdr" /\ w.out = <<ACK>> THEN Bump(@) ELSE @,
              !.ackEot = IF w.pc = "done" /\ w.out # <<>> /\ w.out[Len(w.out)] = ACK
                         THEN Bump(@) ELSE @,
              !.lastAccepted = IF w.expectedBlock # v.expectedBlock
                               THEN v.blockNumber ELSE @,
              !.timeouts = IF env = "lossy" /\ Len(w.rd) < Need
                              /\ ~(SenderWaits /\ FeedChoices = {})
                           THEN @ + 1 ELSE @]

RAwaitStart ==
    /\ rcv.pc = "start_read"
    /\ \E r \in RReads : \E dt \in AttemptTimes :
          /\ rcv' = IF rcv.openCheck THEN StartStep(rcv, r, dt)
                    ELSE StartStepCopy(rcv, r)
          /\ RChan(r, rcv'.out)
    /\ hist' = RHist(hist, rcv, rcv')
    /\ UNCHANGED <<file, snd, env>>

\* variant of Sequence that also stores the block after the expected one
SequenceAhead(v) ==
    IF v.blockNumber = v.expectedBlock - 1 /\ v.expectedBlock > 1
    THEN [Clear(v) EXCEPT !.pc = "next_hdr", !.out = <<ACK>>]
    ELSE IF v.blockNumber \in {v.expectedBlock, (v.expectedBlock + 1) % 256}
    THEN [Clear(v) EXCEPT !.output = IF v.canOpen THEN Append(@, v.dataBlock) ELSE @,
                          !.expectedBlock = (v.blockNumber + 1) % 256,
                          !.pc = "next_hdr", !.out = <<ACK>>]
    ELSE Cont(Clear(v), <<NAK>>)

\* duplicate and sequencing policy for a frame that passed every check
Sequence(v) ==
    IF v.blockNumber = v.expectedBlock - 1 /\ v.expectedBlock > 1
    THEN [Clear(v) EXCEPT !.pc = "next_hdr", !.out = <<ACK>>]
    ELSE IF v.blockNumber = v.expectedBlock
    THEN [Clear(v) EXCEPT !.output = IF v.canOpen THEN Append(@, v.dataBlock) ELSE @,
                          !.expectedBlock = (@ + 1) % 256,
                          !.pc = "next_hdr", !.out = <<ACK>>]
    ELSE Cont(Clear(v), <<NAK>>)

\* one read of the branch headerByte == SOH, with what follows it up to the
\* next read
BlockStep(v, r) ==
    CASE v.pc = "blk_num" ->
           IF r = <<>> THEN Cont([v EXCEPT !.rd = r], <<ModeByte(v.useCRC)>>)
           ELSE [v EXCEPT !.blockNumber = r[1], !.pc = "blk_cmpl",
                          !.out = <<>>, !.rd = r]
      [] v.pc = "blk_cmpl" ->
           IF r = <<>> THEN Cont([v EXCEPT !.rd = r], <<ModeByte(v.useCRC)>>)
           ELSE IF v.blockNumber + r[1] # 255
           THEN Cont([v EXCEPT !.blockNumberComplement = r[1], !.rd = r],
                     <<ModeByte(v.useCRC)>>)
           ELSE [v EXCEPT !.blockNumberComplement = r[1], !.pc = "data",
                          !.out = <<>>, !.rd = r]
      [] v.pc = "data" ->
           IF Len(r) # BLOCK_SIZE
           THEN Cont([v EXCEPT !.rd = r], <<ModeByte(v.useCRC)>>)
           ELSE [v EXCEPT !.dataBlock = r,
                          !.pc = IF v.useCRC THEN "crc_hi" ELSE "sum",
                          !.out = <<>>, !.rd = r]
      [] v.pc = "crc_hi" ->
           IF r = <<>> THEN Cont(Clear([v EXCEPT !.rd = r]), <<NAK>>)
           ELSE [v EXCEPT !.crcHigh = r[1], !.pc = "crc_lo", !.out = <<>>, !.rd = r]
      [] v.pc = "crc_lo" ->
           IF r = <<>> THEN Cont(Clear([v EXCEPT !.rd = r]), <<NAK>>)
           ELSE IF v.crcHigh * 256 + r[1] # calculateCRC16(v.dataBlock)
           THEN Cont(Clear([v EXCEPT !.rd = r]), <<NAK>>)
           ELSE Sequence([v EXCEPT !.rd = r])
      [] v.pc = "sum" ->
           IF r = <<>> THEN Cont(Clear([v EXCEPT !.rd = r]), <<NAK>>)
           ELSE IF r[1] # calculateChecksum(v.dataBlock)
           THEN Cont(Clear([v EXCEPT !.rd = r]), <<NAK>>)
           ELSE Sequence([v EXCEPT !.rd = r])

RReceiveBlock ==
    /\ rcv.pc \in {"blk_num", "blk_cmpl", "data", "crc_hi", "crc_lo", "sum"}
    /\ \E r \in RReads :
          /\ rcv' = BlockStep(rcv, r)
          /\ RChan(r, rcv'.out)
    /\ hist' = RHist(hist, rcv, rcv')
    /\ UNCHANGED <<file, snd, env>>

\* variant of HeaderStep that gives up when the read of a header byte times out
HeaderStepGivesUp(v, r) ==
    IF r = <<>> THEN [v EXCEPT !.pc = "failed", !.out = <<NAK>>, !.rd = r]
    ELSE IF v.pc = "next_hdr"
    THEN IF r[1] = EOT
         THEN [v EXCEPT !.headerByte = EOT, !.pc = "done", !.out = <<ACK>>, !.rd = r]
         ELSE IF r[1] # SOH
         THEN Cont([v EXCEPT !.headerByte = r[1], !.rd = r], <<NAK>>)
         ELSE Cont([v EXCEPT !.headerByte = r[1], !.rd = r], <<>>)
    ELSE Cont([v EXCEPT !.headerByte = r[1], !.rd = r], <<>>)

\* the read of the next header byte: after an accepted or duplicate block
\* (pc next_hdr), or in the branch for an unexpected header byte (pc hdr_retry,
\* whose NAK was written on entering the branch)
HeaderStep(v, r) ==
    IF v.pc = "next_hdr"
    THEN IF r = <<>> THEN Cont([v EXCEPT !.rd = r], <<NAK>>)
         ELSE IF r[1] = EOT
         THEN [v EXCEPT !.headerByte = EOT, !.pc = "done", !.out = <<ACK>>, !.rd = r]
         ELSE IF r[1] # SOH
         THEN Cont([v EXCEPT !.headerByte = r[1], !.rd = r], <<NAK>>)
         ELSE Cont([v EXCEPT !.headerByte = r[1], !.rd = r], <<>>)
    ELSE IF r = <<>> THEN Cont([v EXCEPT !.rd = r], <<>>)
         ELSE Cont([v EXCEPT !.headerByte = r[1], !.rd = r], <<>>)

RNextHeader ==
    /\ rcv.pc \in {"next_hdr", "hdr_retry"}
    /\ \E r \in RReads :
          /\ rcv' = HeaderStep(rcv, r)
          /\ RChan(r, rcv'.out)
    /\ hist' = RHist(hist, rcv, rcv')
    /\ UNCHANGED <<file, snd, env>>

ReceiverNext ==
    \/ ROpen
    \/ RAnnounce
    \/ RAwaitStart
    \/ RReceiveBlock
    \/ RNextHeader

\* ------------------------------------------------------------ specifications
Next == SenderNext \/ ReceiverNext

\* one engine against an arbitrary peer
Spec == Init /\ [][Next]_vars

\* the running engine always takes its next step: a blocking read returns
FairSpec == Spec /\ WF_vars(Next)

\* a sender and a receiver wired to each other by a channel that delivers
\* every byte in order and in time (a read times out only when nothing is on
\* its way, which does not happen while both engines run undisturbed); the
\* receiver's mode is free, the sender's configured mode too
InitSession ==
    /\ env = "chan"
    /\ s2r = <<>>
    /\ r2s = <<>>
    /\ file \in {FileOf(len) : len \in FileLens}
    /\ snd \in {SndInit(crc, TRUE) : crc \in BOOLEAN}
    /\ rcv \in {RcvInit(crc, TRUE) : crc \in BOOLEAN}
    /\ hist = [HistInit EXCEPT !.cfgCRC = snd.useCRC]

SpecSession == InitSession /\ [][Next]_vars

\* both engines run: each is its own thread or process
FairSession == SpecSession /\ WF_vars(SenderNext) /\ WF_vars(ReceiverNext)

\* the same session on a channel that alters one byte of one data frame in
\* flight, once: the complement byte or the last byte of the check value
InitFault ==
    /\ env = "fault"
    /\ s2r = <<>>
    /\ r2s = <<>>
    /\ file \in {FileOf(len) : len \in FaultLens}
    /\ snd = SndInit(FALSE, TRUE)
    /\ rcv \in {RcvInit(crc, TRUE) : crc \in BOOLEAN}
    /\ hist = [HistInit EXCEPT !.cfgCRC = snd.useCRC]

Corrupt ==
    /\ env = "fault"
    /\ snd.pc = "blk_read"
    /\ Len(s2r) = Len(snd.out)
    /\ \E k \in {3, Len(s2r)} : s2r' = [s2r EXCEPT ![k] = Wrong(@)]
    /\ env' = "chan"
    /\ UNCHANGED <<file, snd, rcv, r2s, hist>>

NextFault == SenderNext \/ ReceiverNext \/ Corrupt

SpecFault == InitFault /\ [][NextFault]_vars

FairFault == SpecFault /\ WF_vars(SenderNext) /\ WF_vars(ReceiverNext)

\* a receiver fed with well-formed frames only, in its own mode, one at a time
\* when it waits for a header byte: the frame it expects next (WrapBlocks of
\* them at most) or once more the frame it accepted last
InitWrap ==
    /\ env = "feed"
    /\ s2r = <<>>
    /\ r2s = <<>>
    /\ file = <<>>
    /\ snd = SndIdle
    /\ rcv \in {RcvInit(crc, TRUE) : crc \in BOOLEAN}
    /\ hist = HistInit

Feed ==
    /\ \E n \in FeedChoices : s2r' = BuildPacket(rcv.useCRC, n, PayloadOf(n))
    /\ UNCHANGED <<file, snd, rcv, r2s, env, hist>>

NextWrap == ReceiverNext \/ Feed

SpecWrap == InitWrap /\ [][NextWrap]_vars

\* input files of the sessions on the lossy channel
LossyLens == {100, 200}

\* a session on a channel whose reads may time out while the peer's bytes are
\* still on their way, and which then loses, once, what an engine wrote last
InitLossy ==
    /\ env = "lossy"
    /\ s2r = <<>>
    /\ r2s = <<>>
    /\ file \in {FileOf(len) : len \in LossyLens}
    /\ snd = SndInit(FALSE, TRUE)
    /\ rcv \in {RcvInit(crc, TRUE) : crc \in BOOLEAN}
    /\ hist = [HistInit EXCEPT !.cfgCRC = snd.useCRC]

\* the channel drops the frame or the byte an engine wrote last, before the
\* peer read any of it
Lose ==
    /\ env = "lossy"
    /\ \/ /\ snd.out # <<>>
          /\ Len(s2r) >= Len(snd.out)
          /\ SubSeq(s2r, Len(s2r) - Len(snd.out) + 1, Len(s2r)) = snd.out
          /\ s2r' = SubSeq(s2r, 1, Len(s2r) - Len(snd.out))
          /\ UNCHANGED r2s
       \/ /\ rcv.out # <<>>
          /\ Len(r2s) >= Len(rcv.out)
          /\ SubSeq(r2s, Len(r2s) - Len(rcv.out) + 1, Len(r2s)) = rcv.out
          /\ r2s' = SubSeq(r2s, 1, Len(r2s) - Len(rcv.out))
          /\ UNCHANGED s2r
    /\ env' = "late"
    /\ UNCHANGED <<file, snd, rcv, hist>>

NextLossy == SenderNext \/ ReceiverNext \/ Lose

SpecLossy == InitLossy /\ [][NextLossy]_vars

\* an input file of one block whose bytes 2 and 3 are a block number 1 with
\* its complement, and whose other bytes make the check value come out right
\* for the 128 bytes that follow them in a stream of retransmissions
CraftedFile ==
    <<[i \in 1..BLOCK_SIZE |->
          IF i = 1 THEN 253 ELSE IF i = 2 THEN 1 ELSE IF i = 3 THEN 254 ELSE 0]>>

\* the session with one corrupted byte, sending that file
InitCrafted ==
    /\ env = "fault"
    /\ s2r = <<>>
    /\ r2s = <<>>
    /\ file = CraftedFile
    /\ snd = SndInit(FALSE, TRUE)
    /\ rcv \in {RcvInit(crc, TRUE) : crc \in BOOLEAN}
    /\ hist = [HistInit EXCEPT !.cfgCRC = snd.useCRC]

SpecCrafted == InitCrafted /\ [][NextFault]_vars

\* the sessions whose channel delivers bytes unaltered: lossless ones with
\* either configured sender mode, and the ones with late replies and a loss
\* (there with the one-block file, the handshake being over before a second
\* block is read)
InitUnaltered == InitSession \/ (InitLossy /\ NumBlocks(FileSize(file)) = 1)

SpecUnaltered == InitUnaltered /\ [][NextLossy]_vars

\* the lossless session with the long file
InitLong ==
    /\ env = "chan"
    /\ s2r = <<>>
    /\ r2s = <<>>
    /\ file = FileOf(LongLen)
    /\ snd = SndInit(FALSE, TRUE)
    /\ rcv \in {RcvInit(crc, TRUE) : crc \in BOOLEAN}
    /\ hist = [HistInit EXCEPT !.cfgCRC = snd.useCRC]

\* the long session with both engines running
FairLong ==
    InitLong /\ [][Next]_vars /\ WF_vars(SenderNext) /\ WF_vars(ReceiverNext)

\* every lossless session
InitLossless == InitSession \/ InitLong

SpecLossless == InitLossless /\ [][Next]_vars

\* every environment above
InitAll == Init \/ InitSession \/ InitFault \/ InitLong \/ InitWrap

NextAll == SenderNext \/ ReceiverNext \/ Corrupt \/ Feed

SpecAll == InitAll /\ [][NextAll]_vars

\* the frame builder alone: the block loop of sendFile about to write a frame,
\* with the block number, the mode and the buffer drawn from bounded sets
InitCalc ==
    /\ env = "calc"
    /\ s2r = <<>>
    /\ r2s = <<>>
    /\ file = <<>>
    /\ snd \in {[SndIdle EXCEPT !.pc = "blk_write", !.blockNumber = n,
                                !.useCRC = crc, !.buffer = b] :
                   n \in Byte, crc \in BOOLEAN, b \in TestBlocks}
    /\ rcv = RcvIdle
    /\ hist = HistInit

SpecCalc == InitCalc /\ [][SWriteBlock]_vars

\* every environment in which each frame is built by BuildPacket and reaches
\* the receiver, if at all, unmodified and aligned
InitFrames == InitLossless \/ InitWrap \/ InitCalc

NextFrames == SenderNext \/ ReceiverNext \/ Feed

SpecFrames == InitFrames /\ [][NextFrames]_vars

\* receiveFile of the free-function copy against an arbitrary peer
InitFree ==
    /\ env = "peer"
    /\ s2r = <<>>
    /\ r2s = <<>>
    /\ file = <<>>
    /\ snd = SndIdle
    /\ rcv \in {[RcvInit(crc, ok) EXCEPT !.openCheck = FALSE] :
                   crc \in BOOLEAN, ok \in BOOLEAN}
    /\ hist = HistInit

SpecFree == InitFree /\ [][ReceiverNext]_vars

\* either version of the program against an arbitrary peer
InitBoth == Init \/ InitFree

SpecBoth == InitBoth /\ [][Next]_vars

\* ------------------------------------------------------------ claims
BothDone == snd.pc = "done" /\ rcv.pc = "done"

\* C1: on the lossless channel without timeouts neither engine fails, the
\* output is always a prefix of the padded blocks of the file, the sender
\* writes one EOT, and the session ends with both engines returning success,
\* the output equal to all padded blocks (3 blocks = 384 bytes for 300 bytes),
\* one ACK written per data block and one ACK written for the EOT.
C1_LosslessTransfer ==
    /\ [](/\ snd.pc # "failed" /\ rcv.pc # "failed"
          /\ Len(rcv.output) <= NumBlocks(FileSize(file))
          /\ rcv.output = SubSeq(PaddedBlocks(file), 1, Len(rcv.output))
          /\ hist.eots <= 1
          /\ hist.ackData = Len(rcv.output)
          /\ snd.pc = "done" => rcv.pc = "done"
          /\ rcv.pc = "done"
                => /\ rcv.output = PaddedBlocks(file)
                   /\ hist.ackData = NumBlocks(FileSize(file))
                   /\ hist.ackEot = 1
                   /\ hist.eots = 1
                   /\ FileSize(file) = 300 => Len(rcv.output) * BLOCK_SIZE = 384)
    /\ <>BothDone

\* 300 bytes went over in checksum mode: three ACKs, the last block padded
C1_Witness ==
    /\ BothDone
    /\ env = "chan"
    /\ FileSize(file) = 300
    /\ ~rcv.useCRC
    /\ Len(rcv.output) = 3
    /\ rcv.output[3][44] = FileByte(file, 300)
    /\ rcv.output[3][45] = SUB
    /\ hist.ackData = 3
    /\ hist.ackEot = 1

\* C4: with an empty input the sender never builds a frame and writes only
\* EOT; the receiver, still in its first start attempt, reads EOT, writes ACK
\* and returns success with an empty output; the sender then returns success.
C4_EmptyFile ==
    /\ [](FileSize(file) = 0
            => /\ snd.pc \notin {"blk_write", "blk_read", "failed"}
               /\ hist.frames = 0
               /\ \A i \in 1..Len(s2r) : s2r[i] = EOT
               /\ rcv.pc \in {"open", "start_write", "start_read", "done"}
               /\ rcv.retries = 0
               /\ rcv.output = <<>>
               /\ rcv.pc = "done" => rcv.rd = <<EOT>> /\ rcv.out = <<ACK>>
               /\ snd.pc = "done" => rcv.pc = "done" /\ hist.eots = 1)
    /\ (FileSize(file) = 0) ~> BothDone

\* the empty file was transferred
C4_Witness ==
    /\ BothDone
    /\ env = "chan"
    /\ FileSize(file) = 0
    /\ rcv.rd = <<EOT>>
    /\ rcv.output = <<>>
    /\ hist.ackEot = 1
    /\ snd.rd = <<ACK>>

\* C5: a session in which one data frame arrives with a wrong complement or
\* a wrong check value still ends with both engines returning success and the
\* output equal to the padded input.
C5_RecoversFromCorruption ==
    /\ [](snd.pc # "failed" /\ rcv.pc # "failed")
    /\ [](rcv.pc = "done" => rcv.output = PaddedBlocks(file))
    /\ <>BothDone

\* C2: a frame that passes the complement and the check value and carries the
\* number of the block accepted last is answered with ACK alone, and neither
\* the output nor expectedBlock changes, whatever expectedBlock is.
C2_DuplicateIdempotent ==
    [][(/\ rcv.pc \in {"sum", "crc_lo"}
        /\ hist.lastAccepted >= 0
        /\ rcv.blockNumber = hist.lastAccepted
        /\ rcv.blockNumber + rcv.blockNumberComplement = 255
        /\ rcv'.rd # <<>>
        /\ IF rcv.pc = "sum"
           THEN rcv'.rd[1] = calculateChecksum(rcv.dataBlock)
           ELSE rcv.crcHigh * 256 + rcv'.rd[1] = calculateCRC16(rcv.dataBlock))
          => /\ rcv'.out = <<ACK>>
             /\ rcv'.output = rcv.output
             /\ rcv'.expectedBlock = rcv.expectedBlock]_vars

\* C3: per-block retry bound of the sender.  The frame of one block is written
\* at most MAX_RETRIES times; the attempt counter equals the number of frames
\* written for the current block only (it restarts at 0 with each block); a
\* block is left only by an ACK; and a failure in the block loop that is not
\* caused by CAN happens after exactly MAX_RETRIES frames of that block.
C3_RetryBound ==
    /\ hist.frames <= MAX_RETRIES
    /\ snd.pc = "blk_write" => snd.retries = hist.frames /\ hist.frames < MAX_RETRIES
    /\ snd.pc = "blk_read" => snd.retries + 1 = hist.frames
    /\ (snd.pc = "read_file" /\ hist.frames > 0) => snd.rd = <<ACK>>
    /\ (snd.pc = "failed" /\ hist.frames > 0 /\ snd.rd # <<CAN>>)
           => hist.frames = MAX_RETRIES /\ snd.rd # <<ACK>>

\* the second block fails after MAX_RETRIES frames although the first block
\* was only acknowledged on its last attempt
C3_Witness ==
    /\ snd.pc = "failed"
    /\ snd.blockNumber = 2
    /\ hist.frames = MAX_RETRIES
    /\ hist.prev = MAX_RETRIES
    /\ snd.rd \in {<<NAK>>, <<>>, <<C>>}

\* C8: CAN read in reply to a data frame ends sendFile with failure in that
\* step: nothing is written, the block number stays, and nothing is written
\* after the failure, whatever the number of attempts used.
C8_CanAbortsBlock ==
    [][/\ (snd.pc = "blk_read" /\ snd'.rd = <<CAN>>)
            => /\ snd'.pc = "failed"
               /\ snd'.out = <<>>
               /\ snd'.blockNumber = snd.blockNumber
               /\ snd'.retries = snd.retries
       /\ snd.pc = "failed" => snd'.pc = "failed" /\ snd'.out = <<>>]_vars

\* CAN arrives for the first attempt of the second block
C8_Witness ==
    /\ snd.pc = "failed"
    /\ snd.rd = <<CAN>>
    /\ snd.blockNumber = 2
    /\ snd.retries = 0
    /\ hist.frames = 1

\* C9: CAN read in the sender's handshake or EOT wait, or by the receiver in
\* its start phase or as a header byte, ends that engine with failure and
\* without a further write.
C9_CanAbortsEverywhere ==
    [][/\ (snd.pc \in {"handshake", "eot_read"} /\ snd' # snd /\ snd'.rd = <<CAN>>)
            => snd'.pc = "failed" /\ snd'.out = <<>>
       /\ (rcv.pc \in {"start_read", "next_hdr", "hdr_retry"}
             /\ rcv' # rcv /\ rcv'.rd = <<CAN>>)
            => rcv'.pc = "failed" /\ rcv'.out = <<>>]_vars

\* C10: the sender's mode is set by the first NAK (checksum) or 'C' (CRC) of
\* the handshake, whatever it was constructed with; any other handshake read
\* leaves it alone; after the handshake it never changes; and every frame has
\* the trailer of that mode.
C10_ModeNegotiation ==
    [][/\ (snd.pc = "handshake" /\ snd'.rd = <<NAK>>)
            => ~snd'.useCRC /\ snd'.pc = "read_file"
       /\ (snd.pc = "handshake" /\ snd'.rd = <<C>>)
            => snd'.useCRC /\ snd'.pc = "read_file"
       /\ (snd.pc = "handshake" /\ snd'.rd \notin {<<NAK>>, <<C>>})
            => /\ snd'.useCRC = snd.useCRC
               /\ snd'.pc \in {"handshake", "failed"}
               /\ snd'.blockNumber = snd.blockNumber
               /\ snd'.out = <<>>
       /\ snd.pc \notin {"open", "handshake"} => snd'.useCRC = snd.useCRC
       /\ (snd.pc = "blk_write" /\ snd'.pc = "blk_read")
            => IF snd.useCRC
               THEN /\ Len(snd'.out) = BLOCK_SIZE + 5
                    /\ snd'.out[BLOCK_SIZE + 4] * 256 + snd'.out[BLOCK_SIZE + 5]
                          = calculateCRC16(snd.buffer)
               ELSE /\ Len(snd'.out) = BLOCK_SIZE + 4
                    /\ snd'.out[BLOCK_SIZE + 4] = calculateChecksum(snd.buffer)]_vars

\* a sender constructed for CRC negotiated checksum mode, skipped a CAN before
\* the NAK, and keeps checksum mode after a 'C' in reply to its second block
C10_Witness ==
    /\ hist.cfgCRC
    /\ ~snd.useCRC
    /\ snd.pc = "blk_write"
    /\ snd.blockNumber = 2
    /\ snd.rd = <<C>>
    /\ snd.retries = 1

\* C11: in the handshake nothing has been written; a timeout adds one to the
\* attempt counter, a byte other than NAK and 'C' adds nothing and the wait
\* goes on; the handshake fails exactly when the MAX_RETRIES-th timeout is
\* read, and sendFile then has written no byte at all.
C11_HandshakeFailure ==
    [][snd.pc = "handshake"
         => /\ hist.frames = 0 /\ hist.eots = 0
            /\ snd.retries < MAX_RETRIES
            /\ snd'.out = <<>>
            /\ hist' = hist
            /\ snd'.rd = <<>> => snd'.retries = snd.retries + 1
            /\ (snd'.rd # <<>> /\ snd'.rd \notin {<<NAK>>, <<C>>})
                  => snd'.retries = snd.retries /\ snd'.pc = "handshake"
            /\ snd'.pc = "failed" <=> (snd'.rd = <<>> /\ snd'.retries = MAX_RETRIES)]_vars

\* the handshake failed on the tenth timeout; a CAN read in between did not
\* count
C11_Witness ==
    /\ snd.pc = "failed"
    /\ snd.retries = MAX_RETRIES
    /\ snd.rd = <<>>
    /\ snd.response = CAN
    /\ snd.blockNumber = 1
    /\ hist.frames = 0
    /\ hist.eots = 0

\* C12: each start attempt writes exactly one mode byte of the requested mode
\* and makes one read; a timeout and a byte other than SOH/EOT each use up one
\* attempt and write nothing; the phase goes on only while fewer than
\* START_ATTEMPTS attempts were made and fewer than START_LIMIT_SECONDS have
\* elapsed; it fails when the last attempt is used up or, before that, when
\* the time limit is reached at the end of an attempt; at failure as many mode
\* bytes were written as attempts were made, no ACK, and nothing to the output.
C12_StartPhaseBound ==
    [][/\ rcv.pc = "start_write"
            => /\ rcv.retries < START_ATTEMPTS
               /\ rcv.elapsed \div 1000 < START_LIMIT_SECONDS
               /\ hist.announces = rcv.retries
               /\ rcv.output = <<>>
               /\ rcv'.pc = "start_read"
               /\ rcv'.out = <<IF rcv.useCRC THEN C ELSE NAK>>
               /\ rcv'.retries = rcv.retries
               /\ hist'.announces = hist.announces + 1
       /\ rcv.pc = "start_read"
            => /\ hist.announces = rcv.retries + 1
               /\ rcv'.output = <<>>
               /\ hist'.announces = hist.announces
               /\ Len(rcv'.rd) <= 1
               /\ rcv'.rd \notin {<<SOH>>, <<EOT>>}
                     => /\ rcv'.retries = rcv.retries + 1
                        /\ rcv'.out = <<>>
                        /\ rcv'.pc = IF /\ rcv'.retries < START_ATTEMPTS
                                        /\ rcv'.elapsed \div 1000 < START_LIMIT_SECONDS
                                     THEN "start_write" ELSE "failed"
               /\ rcv'.rd \in {<<SOH>>, <<EOT>>}
                     => rcv'.retries = rcv.retries /\ rcv'.pc \notin {"start_write", "failed"}
               /\ rcv'.pc = "failed"
                     => /\ hist'.announces = rcv'.retries
                        /\ rcv'.retries <= START_ATTEMPTS
                        /\ ACK \notin {rcv'.out[i] : i \in 1..Len(rcv'.out)}]_vars

\* C12 as stated: a start phase that fails has written START_ATTEMPTS mode
\* bytes.
C12_SixModeBytes ==
    [][(rcv.pc = "start_read" /\ rcv'.pc = "failed")
          => hist'.announces = START_ATTEMPTS]_vars

\* the start phase failed in CRC mode after three attempts whose reads timed
\* out, each attempt taking 20 s: three mode bytes were written
C12_Witness ==
    /\ rcv.pc = "failed"
    /\ rcv.useCRC
    /\ hist.announces = 3
    /\ rcv.retries = 3
    /\ rcv.elapsed = 6 * TIMEOUT_MILLISECONDS
    /\ rcv.rd = <<>>
    /\ rcv.output = <<>>

\* C13: every frame the sender writes has its block number as second byte and
\* 255 minus it as third byte; the receiver reads payload and trailer only of
\* a frame whose number and complement sum to 255, grows the output and writes
\* ACK for a frame only then, and answers a complement that does not match
\* with its mode byte alone, the output and expectedBlock unchanged.
C13_ComplementInvariant ==
    [][/\ (snd.pc = "blk_write" /\ snd' # snd)
            => /\ snd'.out[1] = SOH
               /\ snd'.out[2] = snd.blockNumber
               /\ snd'.out[3] = 255 - snd.blockNumber
               /\ snd'.out[2] + snd'.out[3] = 255
       /\ rcv.pc \in {"data", "sum", "crc_hi", "crc_lo"}
            => rcv.blockNumber + rcv.blockNumberComplement = 255
       /\ (rcv'.output # rcv.output \/ (rcv' # rcv /\ rcv'.out = <<ACK>> /\ rcv'.pc # "done"))
            => /\ rcv.pc \in {"sum", "crc_lo"}
               /\ rcv.blockNumber + rcv.blockNumberComplement = 255
       /\ (rcv.pc = "blk_cmpl" /\ rcv' # rcv /\ rcv'.rd # <<>>
              /\ rcv.blockNumber + rcv'.rd[1] # 255)
            => /\ rcv'.out = <<IF rcv.useCRC THEN C ELSE NAK>>
               /\ rcv'.output = rcv.output
               /\ rcv'.expectedBlock = rcv.expectedBlock]_vars

\* the sender's second frame, complement 253, arrived with the complement
\* altered at a receiver in CRC mode, which answered 'C'
C13_Witness ==
    /\ snd.pc = "blk_read"
    /\ snd.blockNumber = 2
    /\ snd.out[2] = 2
    /\ snd.out[3] = 253
    /\ rcv.useCRC
    /\ rcv.blockNumber = 2
    /\ rcv.rd = <<Wrong(253)>>
    /\ rcv.out = <<C>>
    /\ rcv.expectedBlock = 2
    /\ Len(rcv.output) = 1

\* the sum of data[lo..hi] as an integer
RECURSIVE ByteSum(_, _, _)
ByteSum(data, lo, hi) ==
    IF lo > hi THEN 0
    ELSE IF lo = hi THEN data[lo]
    ELSE ByteSum(data, lo, (lo + hi) \div 2) + ByteSum(data, ((lo + hi) \div 2) + 1, hi)

AllBytes(data, b) == \A i \in 1..Len(data) : data[i] = b

\* C14 (as the code has it): calculateChecksum is the sum of the bytes modulo
\* 256, it is the trailer of a checksum frame, it is 0 for 128 bytes 0x00 and
\* 128 for 128 bytes 0xFF.
C14_ChecksumIsByteSum ==
    /\ calculateChecksum(snd.buffer) = ByteSum(snd.buffer, 1, Len(snd.buffer)) % 256
    /\ AllBytes(snd.buffer, 0) => calculateChecksum(snd.buffer) = 0
    /\ AllBytes(snd.buffer, 255) => calculateChecksum(snd.buffer) = 128
    /\ (snd.pc = "blk_read" /\ ~snd.useCRC)
          => snd.out[BLOCK_SIZE + 4] = ByteSum(snd.buffer, 1, BLOCK_SIZE) % 256

\* C14 (as stated): calculateChecksum is the sum of the bytes modulo 256, 0
\* for 128 bytes 0x00 and 0 for 128 bytes 0xFF.
C14_ChecksumAsStated ==
    /\ calculateChecksum(snd.buffer) = ByteSum(snd.buffer, 1, Len(snd.buffer)) % 256
    /\ AllBytes(snd.buffer, 0) => calculateChecksum(snd.buffer) = 0
    /\ AllBytes(snd.buffer, 255) => calculateChecksum(snd.buffer) = 0

\* a checksum frame of 128 bytes 0xFF was written with trailer 128
C14_Witness ==
    /\ snd.pc = "blk_read"
    /\ ~snd.useCRC
    /\ AllBytes(snd.buffer, 255)
    /\ Len(snd.out) = BLOCK_SIZE + 4
    /\ snd.out[BLOCK_SIZE + 4] = 128

\* k steps of the bit-serial CRC register with polynomial 0x1021 (4129): shift
\* left by one, XOR the polynomial when the bit shifted out is 1, keep 16 bits
ShiftXor[v \in 0..65535, k \in 0..8] ==
    IF k = 0 THEN v
    ELSE ShiftXor[IF v >= 32768 THEN BitXor((v * 2) % 65536, 4129)
                  ELSE (v * 2) % 65536, k - 1]

\* the bit-serial CRC of data, initial value 0: each byte is XORed into the
\* high byte of the register, then 8 steps
BitSerialCRC(data) ==
    LET loop[lo \in 1..Len(data), hi \in 1..Len(data), crc \in 0..65535] ==
            IF lo = hi THEN ShiftXor[BitXor(crc, data[lo] * 256), 8]
            ELSE loop[((lo + hi) \div 2) + 1, hi, loop[lo, (lo + hi) \div 2, crc]]
    IN  IF Len(data) = 0 THEN 0 ELSE loop[1, Len(data), 0]

TableIsBitwise == \A i \in 0..255 : crc16tab[i + 1] = ShiftXor[i * 256, 8]

TablesAgree == crc16tabCopy = crc16tab

\* C15: every table entry is the bitwise CRC-CCITT value of its index, the
\* tables of the two source files are equal, calculateCRC16 equals the
\* bit-serial CRC of the block, and that value is the trailer of a CRC frame,
\* high byte first.
C15_CrcIsBitSerial ==
    /\ TableIsBitwise
    /\ TablesAgree
    /\ calculateCRC16(snd.buffer) = BitSerialCRC(snd.buffer)
    /\ (snd.pc = "blk_read" /\ snd.useCRC)
          => snd.out[BLOCK_SIZE + 4] * 256 + snd.out[BLOCK_SIZE + 5]
                = BitSerialCRC(snd.buffer)

\* a CRC frame of 128 bytes 0xFF was written with the bit-serial CRC, which
\* is not 0, as trailer
C15_Witness ==
    /\ snd.pc = "blk_read"
    /\ snd.useCRC
    /\ AllBytes(snd.buffer, 255)
    /\ Len(snd.out) = BLOCK_SIZE + 5
    /\ snd.out[BLOCK_SIZE + 4] * 256 + snd.out[BLOCK_SIZE + 5] = BitSerialCRC(snd.buffer)
    /\ BitSerialCRC(snd.buffer) # 0

\* C16: a frame written is SOH, n, 255 - n, the 128 bytes of the buffer and
\* the checksum (132 bytes) or the CRC, high byte first (133 bytes); when
\* frames arrive unmodified and aligned, the receiver reads a complement that
\* matches, 128 payload bytes equal to the ones sent, the number that was sent
\* and a trailer equal to the check value it recomputes.
C16_FrameRoundTrip ==
    [][/\ (snd.pc = "blk_write" /\ snd' # snd)
            => /\ SubSeq(snd'.out, 1, BLOCK_SIZE + 3)
                     = <<SOH, snd.blockNumber, 255 - snd.blockNumber>> \o snd.buffer
               /\ IF snd.useCRC
                  THEN /\ Len(snd'.out) = 133
                       /\ snd'.out[132] = calculateCRC16(snd.buffer) \div 256
                       /\ snd'.out[133] = calculateCRC16(snd.buffer) % 256
                  ELSE /\ Len(snd'.out) = 132
                       /\ snd'.out[132] = calculateChecksum(snd.buffer)
       /\ (rcv.pc = "blk_cmpl" /\ rcv' # rcv) => rcv.blockNumber + rcv'.rd[1] = 255
       /\ (rcv.pc = "data" /\ rcv' # rcv)
            => /\ Len(rcv'.rd) = BLOCK_SIZE
               /\ rcv'.dataBlock = IF env = "feed" THEN PayloadOf(rcv.blockNumber)
                                   ELSE snd.buffer
               /\ env # "feed" => rcv.blockNumber = snd.blockNumber
       /\ (rcv.pc = "sum" /\ rcv' # rcv)
            => rcv'.rd = <<calculateChecksum(rcv.dataBlock)>>
       /\ (rcv.pc = "crc_lo" /\ rcv' # rcv)
            => rcv.crcHigh * 256 + rcv'.rd[1] = calculateCRC16(rcv.dataBlock)
       /\ (rcv.pc \in {"sum", "crc_lo"} /\ rcv' # rcv /\ env # "feed")
            => rcv'.out = <<ACK>>]_vars

\* the third frame of the 300-byte file, whose payload ends in padding bytes
\* 0x1A, went over in CRC mode and was accepted
C16_Witness ==
    /\ FileSize(file) = 300
    /\ rcv.useCRC
    /\ snd.pc = "blk_read"
    /\ Len(snd.out) = 133
    /\ snd.blockNumber = 3
    /\ snd.buffer[BLOCK_SIZE] = SUB
    /\ rcv.pc = "next_hdr"
    /\ rcv.blockNumber = 3
    /\ rcv.rd = <<snd.out[133]>>
    /\ rcv.out = <<ACK>>
    /\ Len(rcv.output) = 3
    /\ rcv.output[3] = snd.buffer

\* C17: an engine whose file cannot be opened fails in its first step, before
\* any write or read on the channel; a receiver whose output could not be
\* opened never writes ACK and never returns success.
C17_OpenFailureIsFatal ==
    [][/\ (snd.pc = "open" /\ ~snd.canOpen)
            => snd'.pc = "failed" /\ snd'.out = <<>> /\ snd'.rd = NoRead
       /\ (rcv.pc = "open" /\ ~rcv.canOpen)
            => rcv'.pc = "failed" /\ rcv'.out = <<>> /\ rcv'.rd = NoRead
       /\ ~rcv.canOpen
            => /\ rcv'.pc # "done"
               /\ ACK \notin {rcv'.out[i] : i \in 1..Len(rcv'.out)}]_vars

\* the receiver's last step made a read in the block branch, rejected the
\* frame and wrote its retransmission request (mode byte or NAK)
JustRejected ==
    /\ hist.rejected
    /\ rcv.pc \notin {"idle", "done", "failed"}
    /\ rcv.headerByte = SOH
    /\ rcv.rd # NoRead
    /\ rcv.out \in {<<NAK>>, <<C>>}

\* C18: the byte read next after a rejection is taken as the header byte: an
\* SOH read then starts a frame (the block number is read after it) and is
\* not stored as a block number.
C18_HeaderAfterRejection ==
    [][(JustRejected /\ rcv' # rcv /\ rcv'.rd = <<SOH>>)
          => /\ rcv'.headerByte = SOH
             /\ rcv'.blockNumber = rcv.blockNumber
             /\ rcv'.pc = "blk_num"
             /\ rcv'.out = <<>>]_vars

\* the read the receiver is about to apply completes a frame whose complement
\* and check value are valid
CompletesValidFrame ==
    /\ rcv.pc \in {"sum", "crc_lo"}
    /\ rcv' # rcv
    /\ rcv'.rd # <<>>
    /\ rcv.blockNumber + rcv.blockNumberComplement = 255
    /\ IF rcv.pc = "sum"
       THEN rcv'.rd[1] = calculateChecksum(rcv.dataBlock)
       ELSE rcv.crcHigh * 256 + rcv'.rd[1] = calculateCRC16(rcv.dataBlock)

\* C19: a well-formed frame is appended (its 128 bytes), answered with ACK and
\* moves expectedBlock on by one exactly when its number equals expectedBlock;
\* any other number leaves the output and expectedBlock alone, and a number
\* that is neither expectedBlock nor the number accepted last gets NAK.
C19_Sequencing ==
    [][CompletesValidFrame
         => /\ rcv.blockNumber = rcv.expectedBlock
                  => /\ Len(rcv.dataBlock) = BLOCK_SIZE
                     /\ rcv'.output = Append(rcv.output, rcv.dataBlock)
                     /\ rcv'.out = <<ACK>>
                     /\ rcv'.expectedBlock = (rcv.expectedBlock + 1) % 256
            /\ rcv.blockNumber # rcv.expectedBlock
                  => /\ rcv'.output = rcv.output
                     /\ rcv'.expectedBlock = rcv.expectedBlock
            /\ rcv.blockNumber \notin {rcv.expectedBlock, hist.lastAccepted}
                  => rcv'.out = <<NAK>>]_vars

\* after block 1 a well-formed checksum frame numbered 3 got NAK and changed
\* nothing
C19_Witness ==
    /\ env = "peer"
    /\ ~rcv.useCRC
    /\ rcv.expectedBlock = 2
    /\ rcv.blockNumber = 3
    /\ rcv.rd = <<calculateChecksum(PayloadOf(3))>>
    /\ rcv.out = <<NAK>>
    /\ Len(rcv.output) = 1
    /\ hist.lastAccepted = 1

\* C20: a receiver step writes ACK only as its single byte, and only when it
\* has just read EOT as a header byte (and then returns), or when its read
\* completes a frame of 128 payload bytes whose complement and check value
\* are valid.
C20_AckOnlyWhenValidated ==
    [][(rcv' # rcv /\ ACK \in {rcv'.out[i] : i \in 1..Len(rcv'.out)})
         => /\ rcv'.out = <<ACK>>
            /\ IF rcv'.rd = <<EOT>> /\ rcv.pc \in {"start_read", "next_hdr", "hdr_retry"}
               THEN rcv'.headerByte = EOT /\ rcv'.pc = "done"
               ELSE /\ CompletesValidFrame
                    /\ Len(rcv.dataBlock) = BLOCK_SIZE
                    /\ rcv'.pc = "next_hdr"]_vars

\* the second frame passed the CRC in CRC mode and was answered with ACK
C20_Witness ==
    /\ env = "peer"
    /\ rcv.useCRC
    /\ rcv.pc = "next_hdr"
    /\ rcv.blockNumber = 2
    /\ rcv.blockNumberComplement = 253
    /\ rcv.rd = <<calculateCRC16(PayloadOf(2)) % 256>>
    /\ rcv.out = <<ACK>>
    /\ Len(rcv.output) = 2
    /\ rcv.output[2] = PayloadOf(2)

\* C21: the sender's block number is 1 up to and including the first frame; it
\* changes only in the step that reads ACK in reply to a data frame, and then
\* by exactly +1 modulo 256; every frame written is built from the current
\* block number, mode and buffer, and none of the three changes between two
\* such ACKs, so a retransmission is byte for byte the frame written before.
C21_BlockNumbering ==
    [][snd' # snd =>
         /\ (\/ snd.pc \in {"open", "handshake"}
             \/ (snd.pc \in {"blk_write", "blk_read"} /\ snd.pos <= BLOCK_SIZE))
               => snd.blockNumber = 1
         /\ snd.pc = "blk_read" /\ snd'.rd = <<ACK>>
               => snd'.blockNumber = (snd.blockNumber + 1) % 256
         /\ ~(snd.pc = "blk_read" /\ snd'.rd = <<ACK>>)
               => snd'.blockNumber = snd.blockNumber
         /\ snd.pc = "blk_write"
               => /\ snd'.out = BuildPacket(snd.useCRC, snd.blockNumber, snd.buffer)
                  /\ (env # "peer" /\ ~ReceiverReturned => s2r' = s2r \o snd'.out)
         /\ snd.pc \in {"blk_write", "blk_read"}
               => /\ snd'.useCRC = snd.useCRC
                  /\ snd'.buffer = snd.buffer
                  /\ snd'.pos = snd.pos
                  /\ (snd'.pc \in {"blk_write", "blk_read", "failed"}
                        \/ snd'.rd = <<ACK>>)
    ]_vars

\* the third frame of block 2, after a NAK: the same number, the same payload
C21_Witness ==
    /\ snd.pc = "blk_read"
    /\ snd.retries = 2
    /\ hist.frames = 3
    /\ snd.blockNumber = 2
    /\ snd.response = NAK
    /\ snd.out = BuildPacket(snd.useCRC, 2, snd.buffer)

\* C22: when the byte read as next header after an accepted or duplicate block
\* is neither SOH nor EOT, the receiver writes exactly one NAK before it reads
\* the header byte again.
C22_OneNakOnBadHeader ==
    [][(/\ rcv.pc = "next_hdr"
        /\ rcv' # rcv
        /\ rcv'.rd # <<>>
        /\ rcv'.rd[1] \notin {SOH, EOT})
          => /\ rcv'.pc = "hdr_retry"
             /\ rcv'.out = <<NAK>>
    ]_vars

\* C23: the EOT phase starts, with no EOT written yet, when the file has no
\* byte left after the handshake or after an ACKed block; each round writes
\* the single byte EOT and reads one byte; ACK returns success; a timeout or
\* any other byte counts one attempt and writes EOT again while fewer than
\* MAX_RETRIES were written, else sendFile fails; once an EOT was written no
\* data frame is written and the block loop is never entered again.
C23_EotPhase ==
    [][snd' # snd =>
         /\ (snd.pc = "read_file" /\ snd.pos >= FileSize(file))
               => (snd'.pc = "eot_write" /\ snd'.retries = 0 /\ hist.eots = 0)
         /\ snd'.pc = "eot_write"
               => (snd.pc = "eot_read" \/ (snd.pc = "read_file" /\ snd.pos >= FileSize(file)))
         /\ snd.pc = "eot_write"
               => /\ snd.retries < MAX_RETRIES
                  /\ hist.eots = Min(snd.retries, CountCap)
                  /\ snd'.out = <<EOT>>
                  /\ snd'.pc = "eot_read"
                  /\ snd'.retries = snd.retries
         /\ snd.pc = "eot_read"
               => /\ snd'.out = <<>>
                  /\ snd'.retries = snd.retries + 1
                  /\ snd'.pc = IF snd'.rd = <<ACK>> THEN "done"
                               ELSE IF snd'.retries < MAX_RETRIES THEN "eot_write"
                               ELSE "failed"
         /\ hist.eots > 0
               => /\ snd'.pc \in {"eot_write", "eot_read", "done", "failed"}
                  /\ snd'.out \in {<<>>, <<EOT>>}
    ]_vars

\* ten EOTs were written after the last block of the 300-byte file and the
\* tenth read brought NAK: sendFile returned false
C23_Witness ==
    /\ snd.pc = "failed"
    /\ FileSize(file) = 300
    /\ snd.pos = 300
    /\ hist.eots = CountCap
    /\ snd.retries = MAX_RETRIES
    /\ snd.rd = <<NAK>>

\* C24: on the lossless channel the transfer of a file of more than 255
\* blocks never fails and ends with both engines returning success; the k-th
\* block is sent with number k mod 256 (1..255, 0, 1, ...), the receiver
\* expects number (accepted blocks + 1) mod 256, the output changes only by
\* the append of the next padded block of the file and is in the end all of them,
\* and each frame the receiver reads on passes the complement check, the
\* frames numbered 0 and 255 included.
C24_BlockNumberWrap ==
    /\ [](/\ snd.pc # "failed" /\ rcv.pc # "failed"
          /\ snd.pc \in {"blk_write", "blk_read"}
                => snd.blockNumber = NumBlocks(snd.pos) % 256
          /\ rcv.expectedBlock = (Len(rcv.output) + 1) % 256
          /\ Len(rcv.output) <= NumBlocks(FileSize(file))
          /\ Len(rcv.output) > 0
                => rcv.output[Len(rcv.output)] = PaddedBlocks(file)[Len(rcv.output)]
          /\ rcv.pc \in {"blk_cmpl", "data", "sum", "crc_hi", "crc_lo"}
                => rcv.blockNumber = rcv.expectedBlock
          /\ rcv.pc \in {"data", "sum", "crc_hi", "crc_lo"}
                => rcv.blockNumber + rcv.blockNumberComplement = 255)
    /\ [][rcv'.output # rcv.output
              => rcv'.output = Append(rcv.output, PaddedBlocks(file)[Len(rcv.output) + 1])
       ]_vars
    /\ <>(BothDone /\ rcv.output = PaddedBlocks(file))

\* all blocks of the long file went over: the numbers wrapped once
C24_Witness ==
    /\ BothDone
    /\ NumBlocks(FileSize(file)) = WrapBlocks
    /\ Len(rcv.output) = WrapBlocks
    /\ rcv.output[256] = PaddedBlocks(file)[256]
    /\ rcv.output[WrapBlocks] = PaddedBlocks(file)[WrapBlocks]
    /\ snd.blockNumber = (WrapBlocks + 1) % 256
    /\ rcv.expectedBlock = (WrapBlocks + 1) % 256

\* C25: whenever sendFile and receiveFile have both returned success, the
\* receiver's output is the complete sequence of padded blocks of the sender's
\* file, also when the channel loses what was written and a read times out
\* while the peer's reply is on its way.
C25_SuccessMeansDelivered ==
    BothDone => rcv.output = PaddedBlocks(file)

\* C26: the sender has advanced past block k only after the receiver accepted
\* block k, and has returned success only after the receiver read the EOT:
\* each ACK the sender consumes was written for the frame or EOT it wrote last
\* (files of fewer than 256 blocks: blocks ACKed = blockNumber - 1).
C26_AckAttribution ==
    /\ snd.blockNumber - 1 <= Len(rcv.output)
    /\ snd.pc = "done" => rcv.pc = "done"

\* C27: in every reachable state the receiver's output consists of the first
\* accepted-many padded blocks of the sender's file (the output is held as the
\* sequence of the 128-byte blocks written to it).
C27_OutputIsPrefix ==
    /\ Len(rcv.output) <= NumBlocks(FileSize(file))
    /\ rcv.output = SubSeq(PaddedBlocks(file), 1, Len(rcv.output))

\* C28: receiveFile returns failure only from the file-open check or from the
\* start phase; the read of SOH in the start phase enters the main loop, and
\* from the main loop the only exit is the read of EOT as a header byte, which
\* writes ACK and returns success whatever was accepted before.
MainLoop ==
    {"blk_num", "blk_cmpl", "data", "crc_hi", "crc_lo", "sum", "next_hdr", "hdr_retry"}

C28_NoFailureExit ==
    [][rcv' # rcv =>
         /\ (rcv.pc = "start_read" /\ rcv'.rd = <<SOH>>) => rcv'.pc = "blk_num"
         /\ rcv'.pc = "failed" => rcv.pc \in {"open", "start_read"}
         /\ rcv.pc \in MainLoop
               => /\ rcv'.pc \in MainLoop \cup {"done"}
                  /\ (rcv.pc \in {"next_hdr", "hdr_retry"} /\ rcv'.rd = <<EOT>>)
                        => rcv'.pc = "done"
                  /\ rcv'.pc = "done"
                        => /\ rcv.pc \in {"next_hdr", "hdr_retry"}
                           /\ rcv'.rd = <<EOT>>
                           /\ rcv'.out[Len(rcv'.out)] = ACK
                           /\ rcv'.output = rcv.output
    ]_vars

\* success after one accepted block: the header byte read next was EOT
C28_Witness ==
    /\ rcv.pc = "done"
    /\ rcv.headerByte = EOT
    /\ rcv.rd = <<EOT>>
    /\ rcv.out = <<ACK>>
    /\ Len(rcv.output) = 1
    /\ rcv.expectedBlock = 2
    /\ hist.lastAccepted = 1

\* C29: on a channel that may lose bytes but does not alter them, a sender
\* that is past its handshake is in the mode the receiver was started with, and
\* each frame it has written has the length the receiver reads for that mode
\* (3 + BLOCK_SIZE + 1 bytes for the checksum, + 2 bytes for the CRC).
PastHandshake ==
    \/ snd.pc \in {"read_file", "blk_write", "blk_read", "eot_write", "eot_read", "done"}
    \/ (snd.pc = "failed" /\ snd.canOpen /\ (hist.frames > 0 \/ hist.eots > 0))

C29_ModeAgreement ==
    PastHandshake
       => /\ snd.useCRC = rcv.useCRC
          /\ snd.pc = "blk_read"
                => Len(snd.out) = 3 + BLOCK_SIZE + (IF rcv.useCRC THEN 2 ELSE 1)

\* a sender configured for the checksum follows a CRC receiver, after a read
\* timed out and the channel lost something
C29_Witness ==
    /\ env = "late"
    /\ hist.timeouts = 1
    /\ ~hist.cfgCRC
    /\ rcv.useCRC
    /\ snd.useCRC
    /\ snd.pc = "blk_read"
    /\ Len(snd.out) = BLOCK_SIZE + 5

\* C30: the two source files implement one protocol machine. sendFile and the
\* main loop of receiveFile are the same statements in both files and are
\* modelled by the same definitions; the parts that differ are the CRC table,
\* transcribed from each file, and the start phase of receiveFile: in every
\* reachable state of either version that waits for the first byte, and for
\* every result of that read, the step of the class version and the step of
\* the free-function copy give the same locals, writes, output and return
\* value, the 60-second check left aside: the elapsed time is not compared,
\* and when the check fires the class version returns false in that step.
SameButTime(v, w) == [v EXCEPT !.elapsed = 0] = [w EXCEPT !.elapsed = 0]

\* the 60-second check of the class version is reached and holds
ClockFires(v, r, dt) ==
    /\ r = <<>> \/ r[1] \notin {SOH, EOT}
    /\ (v.elapsed + dt) \div 1000 >= START_LIMIT_SECONDS

C30_SameMachine ==
    /\ crc16tabCopy = crc16tab
    /\ rcv.pc = "start_read"
          => \A r \in RReads : \A dt \in AttemptTimes :
                IF ClockFires(rcv, r, dt)
                THEN StartStep(rcv, r, dt).pc = "failed"
                ELSE SameButTime(StartStepCopy(rcv, r), StartStep(rcv, r, dt))

\* the free-function copy gave up after its sixth attempt
C30_Witness ==
    /\ ~rcv.openCheck
    /\ rcv.canOpen
    /\ rcv.pc = "failed"
    /\ rcv.retries = START_ATTEMPTS
    /\ hist.announces = START_ATTEMPTS
    /\ rcv.elapsed = 0

\* C6: receiveFile eventually returns under every channel behaviour.
C6_ReceiverTerminates == <>ReceiverReturned

\* C7: sendFile eventually returns under every peer behaviour.
C7_SenderTerminates == <>SenderReturned

====
